---- MODULE Spec2Model ----
(***************************************************************************)
(* A model of tx_downloader.py (TXFDownloader): the continuous-contract    *)
(* download of fetch_continuous_data as driven by main(), the pure         *)
(* tick-to-bar resampling of resample_ticks_to_1min_kbars, and the weekly  *)
(* tick save that the tests call (save_weekly_ticks_to_csv).               *)
(*                                                                         *)
(* Calendar dates are day ordinals counted from Epoch (a Monday); date     *)
(* strings are records [sep, y, m, d] ("2025-12-29" has sep "-",           *)
(* "2025/12/29" has sep "/"), so that strptime/str are real conversions.   *)
(***************************************************************************)
EXTENDS Integers, Sequences, FiniteSets, TLC

\* ------------------------------------------------------------------ bounds
\* Days 0..MaxDay are the calendar days a run can ask for.
MaxDay == 3

\* A tick frame handed to the resampler or the weekly save has at most
\* MaxTicks rows.
MaxTicks == 3

\* The accumulated ticks of a weekly save fall on days 0..MaxTickDay.
MaxTickDay == 8

\* A frame handed to save_to_firestore has at most MaxRows rows.
MaxRows == 1001

\* Python's None.
None == "None"

\* No date: an unset date variable, an absent checkpoint.
NoDate == 0 - 1

\* --------------------------------------------------------------- calendar
\* 2025-12-29, a Monday: the window crosses a month and a year boundary.
Epoch == [y |-> 2025, m |-> 12, d |-> 29]

IsLeap(y) == (y % 4 = 0 /\ y % 100 # 0) \/ (y % 400 = 0)

DaysInMonth(y, m) ==
    IF m = 2 THEN (IF IsLeap(y) THEN 29 ELSE 28)
    ELSE IF m \in {4, 6, 9, 11} THEN 30 ELSE 31

\* date + timedelta(days=1) on the (y, m, d) fields.
NextYmd(t) ==
    IF t.d < DaysInMonth(t.y, t.m) THEN [t EXCEPT !.d = t.d + 1]
    ELSE IF t.m < 12 THEN [y |-> t.y, m |-> t.m + 1, d |-> 1]
    ELSE [y |-> t.y + 1, m |-> 1, d |-> 1]

\* date - timedelta(days=1) on the (y, m, d) fields.
PrevYmd(t) ==
    IF t.d > 1 THEN [t EXCEPT !.d = t.d - 1]
    ELSE IF t.m > 1 THEN [y |-> t.y, m |-> t.m - 1, d |-> DaysInMonth(t.y, t.m - 1)]
    ELSE [y |-> t.y - 1, m |-> 12, d |-> 31]

RECURSIVE YmdOf(_)
\* The (y, m, d) fields of the date with ordinal n.
YmdOf(n) == IF n = 0 THEN Epoch ELSE NextYmd(YmdOf(n - 1))

RECURSIVE OrdinalOf(_)
\* The ordinal of the date with fields t (t not before Epoch).
OrdinalOf(t) == IF t = Epoch THEN 0 ELSE 1 + OrdinalOf(PrevYmd(t))

\* current_date.strftime("%Y-%m-%d") and str(date): zero-padded ISO text.
StrOfDate(n) == LET t == YmdOf(n) IN [sep |-> "-", y |-> t.y, m |-> t.m, d |-> t.d]

\* The brokerage's delivery_date text, "%Y/%m/%d".
SlashDate(n) == LET t == YmdOf(n) IN [sep |-> "/", y |-> t.y, m |-> t.m, d |-> t.d]

\* datetime.strptime(s, fmt).date(): ValueError when the separator differs.
Strptime(s, sep) ==
    IF s.sep = sep THEN OrdinalOf([y |-> s.y, m |-> s.m, d |-> s.d]) ELSE "ValueError"

\* Python's < on two zero-padded date strings of one format (lexicographic).
StrLess(a, b) ==
    \/ a.y < b.y
    \/ a.y = b.y /\ a.m < b.m
    \/ a.y = b.y /\ a.m = b.m /\ a.d < b.d

Max(a, b) == IF a >= b THEN a ELSE b
Min(a, b) == IF a <= b THEN a ELSE b

Days == 0..MaxDay

\* ---------------------------------------------------------------- catalog
\* Contract codes as character sequences; the last two characters tell a
\* spread/continuous contract ("R1", "R2") from a regular one.
RegularCodes == << <<"T","X","F","L","5">>, <<"T","X","F","A","6">>, <<"T","X","F","B","6">> >>
SpreadCode == <<"T","X","F","R","1">>
CodeOrder == RegularCodes \o <<SpreadCode>>

\* c.code[-2:]
Last2(code) == SubSeq(code, Len(code) - 1, Len(code))

\* c.code[-2:] not in ["R1", "R2"]
IsRegular(c) == Last2(c.code) \notin {<<"R","1">>, <<"R","2">>}

\* Mutant of RegularOnly: the spread contracts are not filtered out.
RegularOnly_KeepSpread(cs) == cs

\* [c for c in self.api.Contracts.Futures.TXF if c.code[-2:] not in [...]]
RegularOnly(cs) == SelectSeq(cs, IsRegular)

RECURSIVE InsertByDelivery(_, _)
\* Stable insertion of c into a list sorted by the delivery_date string.
InsertByDelivery(sorted, c) ==
    IF sorted = <<>> THEN <<c>>
    ELSE IF StrLess(c.delivery_date, Head(sorted).delivery_date)
         THEN <<c>> \o sorted
         ELSE <<Head(sorted)>> \o InsertByDelivery(Tail(sorted), c)

RECURSIVE SortedByDelivery(_)
\* sorted(cs, key=lambda c: c.delivery_date): stable, ascending.
SortedByDelivery(cs) ==
    IF cs = <<>> THEN <<>>
    ELSE InsertByDelivery(SortedByDelivery(SubSeq(cs, 1, Len(cs) - 1)), cs[Len(cs)])

\* all_contracts of fetch_continuous_data.
AllContracts(cs) == SortedByDelivery(RegularOnly(cs))

\* ------------------------------------------------------------------- plan
RECURSIVE FirstIdxFrom(_, _, _)
\* The for/enumerate loop: first index whose delivery date is >= s_date, else -1.
FirstIdxFrom(cs, i, s_date) ==
    IF i > Len(cs) THEN -1
    ELSE IF Strptime(cs[i].delivery_date, "/") >= s_date THEN i
    ELSE FirstIdxFrom(cs, i + 1, s_date)

StartContractIdx(cs, s_date) == FirstIdxFrom(cs, 1, s_date)

RECURSIVE DictSet(_, _, _)
\* query_plan[key] = val on an insertion-ordered dict (a sequence of entries):
\* an existing key keeps its position and takes the new value.
DictSet(plan, key, val) ==
    IF plan = <<>> THEN << [code |-> key, contract |-> val[1], start |-> val[2], end |-> val[3]] >>
    ELSE IF Head(plan).code = key
         THEN << [code |-> key, contract |-> val[1], start |-> val[2], end |-> val[3]] >> \o Tail(plan)
         ELSE <<Head(plan)>> \o DictSet(Tail(plan), key, val)

\* Mutant of RangeStart: a later contract starts on its predecessor's
\* delivery day instead of the day after.
RangeStart_OnDelivery(cs, idx0, i, s_date) ==
    IF i = idx0 THEN s_date
    ELSE Strptime(cs[i - 1].delivery_date, "/")

\* range_start of the i-th contract of the walk.
RangeStart(cs, idx0, i, s_date) ==
    IF i = idx0 THEN s_date
    ELSE Strptime(cs[i - 1].delivery_date, "/") + 1

\* effective_start = max(s_date, range_start)
EffectiveStart(s_date, range_start) == Max(s_date, range_start)

\* Mutant of EffectiveEnd: the segment is not clamped to the requested end.
EffectiveEnd_Unclamped(e_date, range_end) == range_end

\* effective_end = min(e_date, range_end)
EffectiveEnd(e_date, range_end) == Min(e_date, range_end)

RECURSIVE PlanLoop(_, _, _, _, _, _)
\* for i in range(start_contract_idx, len(all_contracts)): ... break
PlanLoop(cs, idx0, i, s_date, e_date, plan) ==
    IF i > Len(cs) THEN plan
    ELSE LET delivery_d == Strptime(cs[i].delivery_date, "/")
             range_start == RangeStart(cs, idx0, i, s_date)
             range_end == delivery_d
             effective_start == EffectiveStart(s_date, range_start)
             effective_end == EffectiveEnd(e_date, range_end)
             plan2 == IF effective_start <= effective_end
                      THEN DictSet(plan, cs[i].code,
                                   <<cs[i], StrOfDate(effective_start), StrOfDate(effective_end)>>)
                      ELSE plan
         IN IF delivery_d >= e_date THEN plan2
            ELSE PlanLoop(cs, idx0, i + 1, s_date, e_date, plan2)

\* The query plan built for an applicable start contract.
QueryPlan(cs, s_date, e_date) ==
    PlanLoop(cs, StartContractIdx(cs, s_date), StartContractIdx(cs, s_date), s_date, e_date, <<>>)

\* --------------------------------------------------------------- resample
\* A pandas frame is [kind |-> "DataFrame", rows |-> <<...>>]; None is NoFrame.
NoFrame == [kind |-> "None", rows |-> <<>>]
Frame(rows) == [kind |-> "DataFrame", rows |-> rows]

\* NaN, the value pandas gives 'first'/'last'/'max'/'min' of an empty bin.
NaN == 0 - 1

\* Seconds in the '1Min' resampling rule.
SecondsPerMinute == 60

\* The left edge of the 1-minute bin a timestamp (in seconds) falls in.
BinOf(ts) == (ts \div SecondsPerMinute) * SecondsPerMinute

RECURSIVE InsertByTs_BeforeEqual(_, _)
\* Mutant of InsertByTs: a row goes in front of the rows of equal timestamp,
\* so ties come out in reverse arrival order.
InsertByTs_BeforeEqual(sorted, r) ==
    IF sorted = <<>> THEN <<r>>
    ELSE IF r.ts <= Head(sorted).ts
         THEN <<r>> \o sorted
         ELSE <<Head(sorted)>> \o InsertByTs_BeforeEqual(Tail(sorted), r)

RECURSIVE InsertByTs(_, _)
\* Stable insertion of row r into rows sorted by ts.
InsertByTs(sorted, r) ==
    IF sorted = <<>> THEN <<r>>
    ELSE IF r.ts < Head(sorted).ts
         THEN <<r>> \o sorted
         ELSE <<Head(sorted)>> \o InsertByTs(Tail(sorted), r)

RECURSIVE SortByTs(_)
\* resample() on an index that is not monotonic: the stable (mergesort)
\* ordering of the rows by timestamp.
SortByTs(rows) ==
    IF rows = <<>> THEN <<>>
    ELSE InsertByTs(SortByTs(SubSeq(rows, 1, Len(rows) - 1)), rows[Len(rows)])

RECURSIVE SumVolume(_)
\* 'sum' of the volume column (0 for no rows).
SumVolume(rows) == IF rows = <<>> THEN 0 ELSE Head(rows).volume + SumVolume(Tail(rows))

RECURSIVE MaxPrice(_)
\* 'max' of price_for_ohlc over a non-empty group.
MaxPrice(rows) ==
    IF Len(rows) = 1 THEN rows[1].price_for_ohlc
    ELSE Max(Head(rows).price_for_ohlc, MaxPrice(Tail(rows)))

RECURSIVE MinPrice(_)
\* 'min' of price_for_ohlc over a non-empty group.
MinPrice(rows) ==
    IF Len(rows) = 1 THEN rows[1].price_for_ohlc
    ELSE Min(Head(rows).price_for_ohlc, MinPrice(Tail(rows)))

\* Mutant of FirstPrice: the open is taken from the last row of the bin.
FirstPrice_TakesLast(rows) == IF rows = <<>> THEN NaN ELSE rows[Len(rows)].price_for_ohlc

\* 'first' of price_for_ohlc: the first row of the bin, NaN for an empty bin.
FirstPrice(rows) == IF rows = <<>> THEN NaN ELSE rows[1].price_for_ohlc

\* 'last' of close: the last row of the bin, NaN for an empty bin.
LastClose(rows) == IF rows = <<>> THEN NaN ELSE rows[Len(rows)].close

\* ohlc_dict applied to the rows of one bin, with the columns renamed
\* ['Close', 'Volume', 'Open', 'High', 'Low'].
AggregateBin(bin, rows) ==
    [ts |-> bin,
     Close |-> LastClose(rows),
     Volume |-> SumVolume(rows),
     Open |-> FirstPrice(rows),
     High |-> IF rows = <<>> THEN NaN ELSE MaxPrice(rows),
     Low |-> IF rows = <<>> THEN NaN ELSE MinPrice(rows)]

\* resample('1Min').apply(ohlc_dict): one row per 1-minute bin from the bin
\* of the earliest tick to the bin of the latest, empty bins included.
ResampleApply(rows) ==
    LET sorted == SortByTs(rows)
        first == BinOf(sorted[1].ts)
        last == BinOf(sorted[Len(sorted)].ts)
        nbins == ((last - first) \div SecondsPerMinute) + 1
    IN [k \in 1..nbins |->
           LET bin == first + (k - 1) * SecondsPerMinute
           IN AggregateBin(bin, SelectSeq(sorted, LAMBDA r : BinOf(r.ts) = bin))]

\* .dropna(subset=[('price_for_ohlc', 'first')])
DropEmptyBins(bars) == SelectSeq(bars, LAMBDA b : b.Open # NaN)

\* ticks_df['price_for_ohlc'] = ticks_df['close'] (and 'ts' made the index).
WithPriceForOhlc(rows) ==
    [i \in 1..Len(rows) |->
        [ts |-> rows[i].ts, close |-> rows[i].close, volume |-> rows[i].volume,
         price_for_ohlc |-> rows[i].close]]

\* Mutant of IsNoneOrEmpty: only None is turned away, not the empty frame.
IsNoneOrEmpty_NoneOnly(df) == df.kind = "None"

\* ticks_df is None or ticks_df.empty
IsNoneOrEmpty(df) == df.kind = "None" \/ df.rows = <<>>

\* resample_ticks_to_1min_kbars: None for no ticks, else the bars (resampling
\* an empty frame, were the guard to let one through, gives an empty frame).
ResampleTicksTo1MinKbars(df) ==
    IF IsNoneOrEmpty(df) THEN NoFrame
    ELSE IF df.rows = <<>> THEN Frame(<<>>)
    ELSE Frame(DropEmptyBins(ResampleApply(WithPriceForOhlc(df.rows))))

\* ----------------------------------------------------------------- weekly
\* date.weekday() (Monday is 0); the Epoch is a Monday.
Weekday(n) == n % 7

\* The Monday that starts the calendar week of day n.
WeekStart(n) == n - Weekday(n)

\* Mutant of WeekKey: weeks are cut a day late (Tuesday to Monday).
WeekKey_EndsMonday(n) == WeekStart(n + 6)

\* The key the weekly save groups a tick's day by.
WeekKey(n) == WeekStart(n)

RECURSIVE WriteFile(_, _, _)
\* to_csv(name): a file of that name is overwritten, else created.
WriteFile(files, name, rows) ==
    IF files = <<>> THEN << [name |-> name, rows |-> rows] >>
    ELSE IF Head(files).name = name
         THEN << [name |-> name, rows |-> rows] >> \o Tail(files)
         ELSE <<Head(files)>> \o WriteFile(Tail(files), name, rows)

RECURSIVE WriteWeeks(_, _, _)
\* One file per week key of `keys` (ascending), holding that week's rows and
\* named by the dates of the first and last tick present in it.
WriteWeeks(files, rows, keys) ==
    IF keys = {} THEN files
    ELSE LET key == CHOOSE k \in keys : \A j \in keys : k <= j
             group == SelectSeq(rows, LAMBDA r : WeekKey(r.day) = key)
             name == <<StrOfDate(group[1].day), StrOfDate(group[Len(group)].day)>>
         IN WriteWeeks(WriteFile(files, name, group), rows, keys \ {key})

\* save_weekly_ticks_to_csv: nothing for no ticks, else one file per
\* Monday-start week in which a tick falls.
SaveWeeklyTicksToCsv(files, df) ==
    IF IsNoneOrEmpty(df) THEN files
    ELSE WriteWeeks(files, df.rows, {WeekKey(df.rows[i].day) : i \in 1..Len(df.rows)})

\* ------------------------------------------------------------------ state
VARIABLES
    pc,             \* where main() / fetch_continuous_data stands
    catalog,        \* self.api.Contracts.Futures.TXF, in the feed's order
    start_date,     \* start_date argument ("%Y-%m-%d" text)
    end_date,       \* end_date argument ("%Y-%m-%d" text)
    checkpoint,     \* the persisted checkpoint record left by an earlier run
    login_calls,    \* number of self.api.login calls made
    query_plan,     \* the insertion-ordered dict query_plan
    seg,            \* position of the for-loop over query_plan.items()
    current_date,   \* current_date of the while loop
    end_date_loop,  \* end_date_loop of the while loop
    all_ticks_df,   \* the list all_ticks_df (one entry per day with ticks)
    calls,          \* every self.api.ticks call made: contract, date, outcome
    retry_would,    \* what the feed would answer to a repeat of the last raising call
    ret,            \* what fetch_continuous_data returned
    ticks_df,       \* the ticks_df argument of resample_ticks_to_1min_kbars
    kbars_df,       \* what resample_ticks_to_1min_kbars returned
    resampled,      \* whether resample_ticks_to_1min_kbars has returned
    weekly_df,      \* the frame handed to save_weekly_ticks_to_csv
    weekly_files,   \* the weekly CSV files on disk: name and rows
    db_ready,       \* whether self.db holds a Firestore client
    fs_df,          \* the frame handed to save_to_firestore: None or its row count
    fs_pc,          \* where save_to_firestore stands
    fs_row,         \* how many rows df.iterrows() has yielded
    count,          \* count of save_to_firestore
    batch,          \* the open write batch: first row set into it, number of writes
    commits         \* the batches committed, in order

fetchVars == <<pc, catalog, start_date, end_date, checkpoint, login_calls, query_plan,
               seg, current_date, end_date_loop, all_ticks_df, calls, retry_would, ret>>

resampleVars == <<ticks_df, kbars_df, resampled>>

weeklyVars == <<weekly_df, weekly_files>>

firestoreVars == <<db_ready, fs_df, fs_pc, fs_row, count, batch, commits>>

vars == <<fetchVars, resampleVars, weeklyVars, firestoreVars>>

\* -------------------------------------------------------------- firestore
\* Rows written per batch before it is committed.
BatchSize == 500

\* self.db.batch(): an empty write batch whose first write will be row `from`.
NewBatch(from) == [from |-> from, writes |-> 0]

\* batch.set(doc_ref, data): one more write in the batch (the rows come in
\* iteration order, so a batch holds the rows from .. from + writes - 1).
BatchSet(b) == [b EXCEPT !.writes = b.writes + 1]

\* count % 500 == 0
BatchIsFull(n) == n % BatchSize = 0

\* Mutant of NeedsFinalCommit: the last batch is committed even when empty.
NeedsFinalCommit_Always(n) == TRUE

\* count % 500 != 0
NeedsFinalCommit(n) == n % BatchSize # 0

\* What batch.commit() can do.
CommitOutcomes == {"ok", "raise"}

\* save_to_firestore not running.
FirestoreIdle ==
    /\ db_ready = FALSE
    /\ fs_df = [kind |-> "None", len |-> 0]
    /\ fs_pc = "idle"
    /\ fs_row = 0
    /\ count = 0
    /\ batch = NewBatch(1)
    /\ commits = <<>>

\* What self.api.ticks can do for one day.
Outcomes == {"ticks", "empty", "raise"}

\* What login() can do: both steps pass, api.login raises, activate_ca raises.
LoginOutcomes == {"ok", "login_error", "ca_error"}

RECURSIVE Ascending(_)
\* The days of S in ascending order.
Ascending(S) ==
    IF S = {} THEN <<>>
    ELSE LET least == CHOOSE x \in S : \A y \in S : x <= y
         IN <<least>> \o Ascending(S \ {least})

\* reversed(s)
Reversed(s) == [i \in 1..Len(s) |-> s[Len(s) + 1 - i]]

\* The regular contracts expiring on the days of S, nearest month first.
RegularListing(S) ==
    [i \in 1..Cardinality(S) |->
        [code |-> RegularCodes[i], delivery_date |-> SlashDate(Ascending(S)[i])]]

\* The catalogs the feed can list: each code at most once, regular contracts
\* expiring on distinct days, listed nearest or farthest month first, and
\* possibly one spread contract.
Catalogs ==
    LET Regular == UNION { {RegularListing(S), Reversed(RegularListing(S))} :
                           S \in {T \in SUBSET Days : Cardinality(T) <= Len(RegularCodes)} }
        Spread == { <<>> } \cup
                  { << [code |-> SpreadCode, delivery_date |-> SlashDate(n)] >> : n \in {0, MaxDay} }
    IN { sp \o reg : sp \in Spread, reg \in Regular }

\* main() before downloader.login(): a catalog, a requested range, nothing
\* downloaded yet.
InitRun ==
    /\ FirestoreIdle
    /\ pc = "login"
    /\ catalog \in Catalogs
    /\ start_date \in {StrOfDate(n) : n \in Days}
    /\ end_date \in {StrOfDate(n) : n \in Days}
    /\ login_calls = 0
    /\ query_plan = <<>>
    /\ seg = 0
    /\ current_date = NoDate
    /\ end_date_loop = NoDate
    /\ all_ticks_df = <<>>
    /\ calls = <<>>
    /\ retry_would = None
    /\ ret = None
    /\ ticks_df = NoFrame
    /\ kbars_df = NoFrame
    /\ resampled = FALSE
    /\ weekly_df = NoFrame
    /\ weekly_files = <<>>

\* A first run: no checkpoint record exists.
Init == InitRun /\ checkpoint = NoDate

\* A run started while an earlier run's checkpoint record is present.
InitResume == InitRun /\ checkpoint \in Days

\* main(): downloader.login(); a False return ends the program.
Login ==
    /\ pc = "login"
    /\ login_calls' = login_calls + 1
    /\ \E o \in LoginOutcomes : pc' = IF o = "ok" THEN "plan" ELSE "terminated"
    /\ UNCHANGED <<catalog, start_date, end_date, checkpoint, query_plan, seg, current_date,
                   end_date_loop, all_ticks_df, calls, retry_would, ret>>
    /\ UNCHANGED <<resampleVars, weeklyVars, firestoreVars>>

\* fetch_continuous_data up to the download loop: filter and sort the
\* catalog, find the start contract, build query_plan; either early return
\* hands None to main(), which then stores nothing.
Plan ==
    /\ pc = "plan"
    /\ LET all_contracts == AllContracts(catalog)
           s_date == Strptime(start_date, "-")
           e_date == Strptime(end_date, "-")
       IN IF all_contracts = <<>> \/ StartContractIdx(all_contracts, s_date) = -1
          THEN /\ pc' = "done"
               /\ ret' = None
               /\ UNCHANGED query_plan
          ELSE /\ pc' = "for"
               /\ query_plan' = QueryPlan(all_contracts, s_date, e_date)
               /\ UNCHANGED ret
    /\ UNCHANGED <<catalog, start_date, end_date, checkpoint, login_calls, seg, current_date,
                   end_date_loop, all_ticks_df, calls, retry_would>>
    /\ UNCHANGED <<resampleVars, weeklyVars, firestoreVars>>

\* for code, (contract, start, end) in query_plan.items(): next item, or the
\* loop is over.
ForSegment ==
    /\ pc = "for"
    /\ IF seg < Len(query_plan)
       THEN /\ seg' = seg + 1
            /\ current_date' = Strptime(query_plan[seg + 1].start, "-")
            /\ end_date_loop' = Strptime(query_plan[seg + 1].end, "-")
            /\ pc' = "while"
       ELSE /\ pc' = "return"
            /\ UNCHANGED <<seg, current_date, end_date_loop>>
    /\ UNCHANGED <<catalog, start_date, end_date, checkpoint, login_calls, query_plan,
                   all_ticks_df, calls, retry_would, ret>>
    /\ UNCHANGED <<resampleVars, weeklyVars, firestoreVars>>

\* Mutant of NextDate: the loop never leaves the day it is on.
NextDate_SameDay(d) == d

\* Mutant of NextDate: the loop steps over every other day.
NextDate_SkipsDay(d) == d + 2

\* current_date += timedelta(days=1)
NextDate(d) == d + 1

\* One pass of the while loop: self.api.ticks for current_date; ticks are
\* saved and appended, an exception is logged as a warning; in every case
\* current_date moves on by one day.
TicksQuery ==
    /\ pc = "while"
    /\ current_date <= end_date_loop
    /\ \E o \in Outcomes, again \in Outcomes :
         /\ calls' = Append(calls, [contract |-> query_plan[seg].contract,
                                    code |-> query_plan[seg].code,
                                    date |-> StrOfDate(current_date),
                                    outcome |-> o])
         /\ all_ticks_df' = IF o = "ticks"
                            THEN Append(all_ticks_df, [code |-> query_plan[seg].contract.code,
                                                       date |-> StrOfDate(current_date)])
                            ELSE all_ticks_df
         /\ retry_would' = IF o = "raise" THEN again ELSE None
    /\ current_date' = NextDate(current_date)
    /\ UNCHANGED <<pc, catalog, start_date, end_date, checkpoint, login_calls, query_plan, seg,
                   end_date_loop, ret>>
    /\ UNCHANGED <<resampleVars, weeklyVars, firestoreVars>>

\* The while condition fails: back to the for loop.
EndSegment ==
    /\ pc = "while"
    /\ current_date > end_date_loop
    /\ pc' = "for"
    /\ UNCHANGED <<catalog, start_date, end_date, checkpoint, login_calls, query_plan, seg,
                   current_date, end_date_loop, all_ticks_df, calls, retry_would, ret>>
    /\ UNCHANGED <<resampleVars, weeklyVars, firestoreVars>>

\* After the loops: None when nothing was downloaded, else the resampled
\* bars of the combined ticks (never empty for a non-empty tick frame).
Return ==
    /\ pc = "return"
    /\ ret' = IF all_ticks_df = <<>> THEN None ELSE "kbars"
    /\ pc' = "done"
    /\ UNCHANGED <<catalog, start_date, end_date, checkpoint, login_calls, query_plan, seg,
                   current_date, end_date_loop, all_ticks_df, calls, retry_would>>
    /\ UNCHANGED <<resampleVars, weeklyVars, firestoreVars>>

Next == Login \/ Plan \/ ForSegment \/ TicksQuery \/ EndSegment \/ Return

Spec == Init /\ [][Next]_vars

SpecResume == InitResume /\ [][Next]_vars

\* ------------------------------------------------- resampling on its own
\* The download part at rest, for the specifications of the pure functions.
FetchIdle ==
    /\ pc = "idle"
    /\ catalog = <<>>
    /\ start_date = StrOfDate(0)
    /\ end_date = StrOfDate(0)
    /\ checkpoint = NoDate
    /\ login_calls = 0
    /\ query_plan = <<>>
    /\ seg = 0
    /\ current_date = NoDate
    /\ end_date_loop = NoDate
    /\ all_ticks_df = <<>>
    /\ calls = <<>>
    /\ retry_would = None
    /\ ret = None

\* Tick timestamps in seconds: two in the first minute, none in the second,
\* one in the third.
TickTimes == {10, 50, 130}
TickPrices == {1, 2, 3}
TickVolumes == {1, 2}

TickRows == [ts : TickTimes, close : TickPrices, volume : TickVolumes]

\* All sequences over S of length at most n.
SeqsUpTo(S, n) == UNION {[1..k -> S] : k \in 0..n}

\* A call of resample_ticks_to_1min_kbars with None or a frame of ticks in
\* any order.
InitResample ==
    /\ FirestoreIdle
    /\ FetchIdle
    /\ ticks_df \in {NoFrame} \cup {Frame(rows) : rows \in SeqsUpTo(TickRows, MaxTicks)}
    /\ kbars_df = NoFrame
    /\ resampled = FALSE
    /\ weekly_df = NoFrame
    /\ weekly_files = <<>>

\* resample_ticks_to_1min_kbars(ticks_df): the frame passed in is re-indexed
\* and given its price_for_ohlc column in place unless the call returns at
\* once.
Resample ==
    /\ ~resampled
    /\ kbars_df' = ResampleTicksTo1MinKbars(ticks_df)
    /\ ticks_df' = IF IsNoneOrEmpty(ticks_df) THEN ticks_df
                   ELSE Frame(WithPriceForOhlc(ticks_df.rows))
    /\ resampled' = TRUE
    /\ UNCHANGED <<fetchVars, weeklyVars, firestoreVars>>

NextResample == Resample

SpecResample == InitResample /\ [][NextResample]_vars

\* ------------------------------------------------ weekly save on its own
WeeklyRows == [day : 0..MaxTickDay, close : {1, 2}]

\* The accumulated ticks are in the order they were downloaded: day by day.
InitWeekly ==
    /\ FirestoreIdle
    /\ FetchIdle
    /\ ticks_df = NoFrame
    /\ kbars_df = NoFrame
    /\ resampled = FALSE
    /\ weekly_df \in {NoFrame} \cup
          {Frame(rows) : rows \in {r \in SeqsUpTo(WeeklyRows, MaxTicks) :
                                     \A i \in 1..(Len(r) - 1) : r[i].day <= r[i + 1].day}}
    /\ weekly_files = <<>>

\* save_weekly_ticks_to_csv(weekly_df)
SaveWeekly ==
    /\ pc = "idle"
    /\ weekly_files' = SaveWeeklyTicksToCsv(weekly_files, weekly_df)
    /\ pc' = "saved"
    /\ UNCHANGED <<catalog, start_date, end_date, checkpoint, login_calls, query_plan, seg,
                   current_date, end_date_loop, all_ticks_df, calls, retry_would, ret>>
    /\ UNCHANGED <<resampleVars, weekly_df, firestoreVars>>

NextWeekly == SaveWeekly

SpecWeekly == InitWeekly /\ [][NextWeekly]_vars

\* ------------------------------------------------ firestore save on its own
\* A call of save_to_firestore with None or a frame of up to MaxRows rows,
\* with or without an initialised client.
InitFirestore ==
    /\ FetchIdle
    /\ ticks_df = NoFrame
    /\ kbars_df = NoFrame
    /\ resampled = FALSE
    /\ weekly_df = NoFrame
    /\ weekly_files = <<>>
    /\ db_ready \in BOOLEAN
    /\ fs_df \in {[kind |-> "None", len |-> 0]} \cup
                 {[kind |-> "DataFrame", len |-> n] : n \in 0..MaxRows}
    /\ fs_pc = "call"
    /\ fs_row = 0
    /\ count = 0
    /\ batch = NewBatch(1)
    /\ commits = <<>>

\* save_to_firestore up to the loop: return without a client or without
\* rows, else open the first batch.
FirestoreBegin ==
    /\ fs_pc = "call"
    /\ IF ~db_ready \/ fs_df.kind = "None" \/ fs_df.len = 0
       THEN /\ fs_pc' = "returned"
            /\ UNCHANGED <<count, batch>>
       ELSE /\ fs_pc' = "loop"
            /\ count' = 0
            /\ batch' = NewBatch(1)
    /\ UNCHANGED <<db_ready, fs_df, fs_row, commits>>
    /\ UNCHANGED <<fetchVars, resampleVars, weeklyVars>>

\* One pass of for _, row in df.iterrows(): set the row into the batch,
\* count it, and commit and reopen the batch on every 500th row. A commit
\* that raises is not caught: the exception leaves save_to_firestore.
FirestoreSetRow ==
    /\ fs_pc = "loop"
    /\ fs_row < fs_df.len
    /\ fs_row' = fs_row + 1
    /\ count' = count + 1
    /\ IF BatchIsFull(count + 1)
       THEN \E outcome \in CommitOutcomes :
              IF outcome = "ok"
              THEN /\ commits' = Append(commits, BatchSet(batch))
                   /\ batch' = NewBatch(fs_row + 2)
                   /\ UNCHANGED fs_pc
              ELSE /\ batch' = BatchSet(batch)
                   /\ fs_pc' = "raised"
                   /\ UNCHANGED commits
       ELSE /\ batch' = BatchSet(batch)
            /\ UNCHANGED <<commits, fs_pc>>
    /\ UNCHANGED <<db_ready, fs_df>>
    /\ UNCHANGED <<fetchVars, resampleVars, weeklyVars>>

\* After the loop: commit what is left, if anything, and return.
FirestoreFinish ==
    /\ fs_pc = "loop"
    /\ fs_row = fs_df.len
    /\ IF NeedsFinalCommit(count)
       THEN \E outcome \in CommitOutcomes :
              IF outcome = "ok"
              THEN /\ commits' = Append(commits, batch)
                   /\ fs_pc' = "returned"
              ELSE /\ fs_pc' = "raised"
                   /\ UNCHANGED commits
       ELSE /\ fs_pc' = "returned"
            /\ UNCHANGED commits
    /\ UNCHANGED <<db_ready, fs_df, fs_row, count, batch>>
    /\ UNCHANGED <<fetchVars, resampleVars, weeklyVars>>

NextFirestore == FirestoreBegin \/ FirestoreSetRow \/ FirestoreFinish

SpecFirestore == InitFirestore /\ [][NextFirestore]_vars

\* ----------------------------------------------------------------- claims
\* The requested range as dates.
SDate == Strptime(start_date, "-")
EDate == Strptime(end_date, "-")

\* The regular (non-spread) contracts of the catalog and their delivery days.
RegularContracts == {catalog[i] : i \in {j \in 1..Len(catalog) : IsRegular(catalog[j])}}
DeliveryDays == {Strptime(c.delivery_date, "/") : c \in RegularContracts}

\* fetch_continuous_data is past its planning part and in the download loops.
Planned == pc \in {"for", "while", "return"}

SegStart(k) == Strptime(query_plan[k].start, "-")
SegEnd(k) == Strptime(query_plan[k].end, "-")

\* The day of the i-th tick query.
CallDay(i) == Strptime(calls[i].date, "-")

\* C1 (as claimed): once the tick query of a day has failed, no tick query
\* for a later day is issued in that run, and when the run has ended the
\* checkpoint holds the failed day.
C1_HaltsOnFailedDay ==
    \A i \in 1..Len(calls) :
        calls[i].outcome = "raise" =>
            /\ i = Len(calls)
            /\ (pc = "done" => checkpoint = CallDay(i))

\* C2 (as claimed): whenever start <= end, the planned segments are
\* contiguous, do not overlap, and their union is exactly [start, end].
C2_PlanCoversRange ==
    (Planned /\ SDate <= EDate) =>
        /\ query_plan # <<>>
        /\ SegStart(1) = SDate
        /\ SegEnd(Len(query_plan)) = EDate
        /\ \A k \in 1..Len(query_plan) : SegStart(k) <= SegEnd(k)
        /\ \A k \in 1..(Len(query_plan) - 1) : SegStart(k + 1) = SegEnd(k) + 1

\* C2 (amended): whenever start <= end and some regular contract expires on
\* or after end, the planned segments are contiguous (each range_end is one
\* day before the next range_start), do not overlap, and their union is
\* exactly [start, end].
C2_PlanCoversRangeWhenCatalogReachesEnd ==
    (Planned /\ SDate <= EDate /\ \E d \in DeliveryDays : d >= EDate) =>
        /\ query_plan # <<>>
        /\ SegStart(1) = SDate
        /\ SegEnd(Len(query_plan)) = EDate
        /\ \A k \in 1..Len(query_plan) : SegStart(k) <= SegEnd(k)
        /\ \A k \in 1..(Len(query_plan) - 1) : SegStart(k + 1) = SegEnd(k) + 1

\* C2 witness: a plan of three segments, the range reaching over two rollovers.
C2_ThreeSegmentPlan ==
    /\ Planned
    /\ Len(query_plan) = 3
    /\ SDate < EDate
    /\ \E d \in DeliveryDays : d >= EDate

\* C4 (as claimed): when the tick query of a day fails on its first
\* invocation and would succeed on a second one, the remote call is made
\* exactly twice for that day with exactly one re-login (after main's own
\* login), and the day's ticks are the result.
C4_RetriesOnceAfterRelogin ==
    (calls # <<>> /\ calls[Len(calls)].outcome = "raise" /\ retry_would = "ticks") =>
        /\ Cardinality({i \in 1..Len(calls) : calls[i].date = calls[Len(calls)].date}) = 2
        /\ login_calls = 2
        /\ \E j \in 1..Len(all_ticks_df) : all_ticks_df[j].date = calls[Len(calls)].date

\* C5: when there is no regular contract, or none expiring on or after
\* start, planning returns None at once: no segment is planned and no tick
\* query is ever issued.
C5_NoApplicableContractNoQuery ==
    (RegularContracts = {} \/ \A d \in DeliveryDays : d < SDate) =>
        /\ query_plan = <<>>
        /\ calls = <<>>
        /\ pc \in {"login", "terminated", "plan", "done"}
        /\ (pc = "done" => ret = None)

\* C5 witness: planning has failed although regular contracts exist, none
\* expiring on or after start.
C5_PlanningFailed ==
    /\ pc = "done"
    /\ RegularContracts # {}
    /\ \A d \in DeliveryDays : d < SDate
    /\ ret = None

\* C7 (as claimed): a single-day request always yields exactly one segment,
\* whose range_start and range_end are that day.
C7_SingleDayOneSegment ==
    (SDate = EDate /\ pc \in {"for", "while", "return", "done"}) =>
        /\ Len(query_plan) = 1
        /\ SegStart(1) = SDate
        /\ SegEnd(1) = SDate

\* C7 (amended): a single-day request yields exactly one segment, whose
\* range_start and range_end are that day, whenever some regular contract
\* expires on or after that day.
C7_SingleDayOneSegmentWhenApplicable ==
    (SDate = EDate /\ pc \in {"for", "while", "return", "done"}
        /\ \E d \in DeliveryDays : d >= SDate) =>
        /\ Len(query_plan) = 1
        /\ SegStart(1) = SDate
        /\ SegEnd(1) = SDate

\* C7 witness: a single-day request, planned while an earlier contract has
\* already expired and a later one is still to come.
C7_SingleDayPlanned ==
    /\ Planned
    /\ SDate = EDate
    /\ \E d \in DeliveryDays : d < SDate
    /\ \E d \in DeliveryDays : d > SDate
    /\ Len(query_plan) = 1

\* C8 (as claimed): with a checkpoint holding a day D strictly between the
\* requested start and end, the first tick query is for D, and the last day
\* walked is the requested end.
C8_ResumesAtCheckpoint ==
    (checkpoint # NoDate /\ SDate < checkpoint /\ checkpoint < EDate) =>
        /\ (calls # <<>> => CallDay(1) = checkpoint)
        /\ ((pc = "done" /\ calls # <<>>) => CallDay(Len(calls)) = EDate)

\* The rows handed to the resampler, and the bars it returned.
TickIn == ticks_df.rows
Bars == kbars_df.rows

\* The ticks are already in time order.
InTimeOrder(rows) == \A i \in 1..(Len(rows) - 1) : rows[i].ts <= rows[i + 1].ts

\* The start of the minute a timestamp lies in.
MinuteStart(ts) == ts - (ts % 60)

\* The positions of the ticks of the minute starting at m.
TicksOfMinute(m) == {i \in 1..Len(TickIn) : MinuteStart(TickIn[i].ts) = m}

RECURSIVE VolumeOf(_)
\* The total volume of the ticks at the positions I.
VolumeOf(I) ==
    IF I = {} THEN 0
    ELSE LET i == CHOOSE j \in I : TRUE IN TickIn[i].volume + VolumeOf(I \ {i})

\* C3: for ticks already sorted by time, aggregation yields exactly one bar
\* per minute that holds a tick and none for an empty minute, in ascending
\* order, with open = price of the minute's first tick, close = price of its
\* last tick, high = its maximum price, low = its minimum price and
\* volume = the sum of its tick volumes.
C3_OneBarPerTradedMinute ==
    (resampled /\ ticks_df.kind = "DataFrame" /\ TickIn # <<>> /\ InTimeOrder(TickIn)) =>
        /\ kbars_df.kind = "DataFrame"
        /\ \A k \in 1..(Len(Bars) - 1) : Bars[k].ts < Bars[k + 1].ts
        /\ {Bars[k].ts : k \in 1..Len(Bars)} = {MinuteStart(TickIn[i].ts) : i \in 1..Len(TickIn)}
        /\ \A k \in 1..Len(Bars) :
             LET I == TicksOfMinute(Bars[k].ts)
                 first == CHOOSE i \in I : \A j \in I : i <= j
                 last == CHOOSE i \in I : \A j \in I : i >= j
             IN /\ Bars[k].Open = TickIn[first].close
                /\ Bars[k].Close = TickIn[last].close
                /\ \E i \in I : Bars[k].High = TickIn[i].close
                /\ \A i \in I : Bars[k].High >= TickIn[i].close
                /\ \E i \in I : Bars[k].Low = TickIn[i].close
                /\ \A i \in I : Bars[k].Low <= TickIn[i].close
                /\ Bars[k].Volume = VolumeOf(I)

\* C3 witness: sorted ticks, two of different price in one minute and one
\* two minutes later, gave two bars with the empty minute left out.
C3_TwoBarsAcrossEmptyMinute ==
    /\ resampled
    /\ ticks_df.kind = "DataFrame"
    /\ Len(TickIn) = 3
    /\ InTimeOrder(TickIn)
    /\ Len(Bars) = 2
    /\ Bars[1].Open # Bars[1].Close
    /\ Bars[2].ts - Bars[1].ts > 60

\* C6: aggregating None or an empty tick frame returns None, never an empty
\* frame of bars.
C6_NoTicksGivesNone ==
    (resampled /\ (ticks_df.kind = "None" \/ ticks_df.rows = <<>>)) => kbars_df = NoFrame

\* C6 witness: an empty (not None) tick frame was aggregated to None.
C6_EmptyFrameAggregated ==
    /\ resampled
    /\ ticks_df = Frame(<<>>)
    /\ kbars_df.kind = "None"

\* The ticks handed to the weekly save.
WeeklyIn == weekly_df.rows

\* The Monday-start calendar week of a day, counted from the Epoch's week.
CalendarWeek(n) == n \div 7

\* How many rows of `rows` equal r.
Occurrences(rows, r) == Cardinality({i \in 1..Len(rows) : rows[i] = r})

RECURSIVE OccurrencesInFiles(_, _)
\* How many rows of the files equal r.
OccurrencesInFiles(files, r) ==
    IF files = <<>> THEN 0
    ELSE Occurrences(Head(files).rows, r) + OccurrencesInFiles(Tail(files), r)

\* C10: the weekly save partitions the accumulated ticks by Monday-start
\* calendar week: one file per week that holds a tick, every tick in exactly
\* one file, and two ticks in the same file exactly when they fall in the
\* same week.
C10_WeeklyFilesPartitionTicks ==
    (pc = "saved" /\ weekly_df.kind = "DataFrame") =>
        /\ Len(weekly_files) =
             Cardinality({CalendarWeek(WeeklyIn[i].day) : i \in 1..Len(WeeklyIn)})
        /\ \A r \in WeeklyRows : OccurrencesInFiles(weekly_files, r) = Occurrences(WeeklyIn, r)
        /\ \A f \in 1..Len(weekly_files) :
             /\ weekly_files[f].rows # <<>>
             /\ \A a, b \in 1..Len(weekly_files[f].rows) :
                  CalendarWeek(weekly_files[f].rows[a].day) = CalendarWeek(weekly_files[f].rows[b].day)
        /\ \A f, g \in 1..Len(weekly_files) :
             f # g => CalendarWeek(weekly_files[f].rows[1].day) # CalendarWeek(weekly_files[g].rows[1].day)

\* C10 witness: two ticks of one week and a tick of the Monday after were
\* saved as two files, the first holding two ticks.
C10_TwoWeeksSaved ==
    /\ pc = "saved"
    /\ Len(WeeklyIn) = 3
    /\ Len(weekly_files) = 2
    /\ Len(weekly_files[1].rows) = 2
    /\ weekly_files[2].rows[1].day = 7

\* C11 (as claimed): the checkpoint is written with day d before the tick
\* query for day d, so after every tick query the checkpoint holds the day
\* just attempted; and it is cleared once the whole range has been walked
\* without a failed day.
C11_CheckpointTracksAttemptedDay ==
    /\ (pc = "while" /\ calls # <<>>) => checkpoint = CallDay(Len(calls))
    /\ (pc = "done" /\ \A i \in 1..Len(calls) : calls[i].outcome # "raise") =>
           checkpoint = NoDate

\* The positions of the tick queries made for the day with text `date`.
CallsFor(date) == {i \in 1..Len(calls) : calls[i].date = date}

\* The tick queries that raised.
FailedCalls == {i \in 1..Len(calls) : calls[i].outcome = "raise"}

\* C12: whatever the remote call and login do, the fetch of one day invokes
\* the remote call at most twice and re-login at most once (no more
\* re-logins than failed fetches, main's own login apart), and a failed
\* invocation is never followed by a third one for that day.
C12_AtMostOneRetryPerDay ==
    /\ \A i \in 1..Len(calls) : Cardinality(CallsFor(calls[i].date)) <= 2
    /\ login_calls <= 1 + Cardinality(FailedCalls)

\* C12 witness: the tick query of a day raised and the loop has since
\* fetched a later day, the failed day having been queried once.
C12_FailedDayLeftBehind ==
    /\ Len(calls) >= 2
    /\ calls[1].outcome = "raise"
    /\ Cardinality(CallsFor(calls[1].date)) = 1
    /\ calls[2].date # calls[1].date

\* C14: across a run the days of the tick queries are strictly ascending,
\* also from one segment (contract) to the next.
C14_QueryDaysAscend ==
    \A i \in 1..(Len(calls) - 1) : CallDay(i) < CallDay(i + 1)

\* C14 witness: two consecutive tick queries went to different contracts.
C14_QueriesAcrossRollover ==
    \E i \in 1..(Len(calls) - 1) :
        /\ calls[i].code # calls[i + 1].code
        /\ CallDay(i) + 1 = CallDay(i + 1)

RECURSIVE PlannedDays(_)
\* The number of calendar days in the segments 1..k of the plan.
PlannedDays(k) == IF k = 0 THEN 0 ELSE PlannedDays(k - 1) + (SegEnd(k) - SegStart(k) + 1)

\* C15: the download issues exactly one tick query for every day of every
\* planned segment, against that segment's contract, whatever the earlier
\* queries did; when the loop is over the number of queries is the number
\* of days in the plan, and no day was queried against two contracts.
C15_OneQueryPerPlannedDay ==
    /\ Len(calls) <= PlannedDays(Len(query_plan))
    /\ \A i, j \in 1..Len(calls) : calls[i].date = calls[j].date => i = j
    /\ \A i \in 1..Len(calls) :
         \E k \in 1..Len(query_plan) :
            /\ calls[i].contract = query_plan[k].contract
            /\ SegStart(k) <= CallDay(i)
            /\ CallDay(i) <= SegEnd(k)
    /\ (pc \in {"return", "done"}) =>
         /\ Len(calls) = PlannedDays(Len(query_plan))
         /\ \A k \in 1..Len(query_plan) :
              \A d \in SegStart(k)..SegEnd(k) :
                 \E i \in 1..Len(calls) :
                    /\ CallDay(i) = d
                    /\ calls[i].contract = query_plan[k].contract

\* C15 witness: a run over two segments has ended after a query that raised
\* and one that returned nothing, every planned day queried.
C15_AllDaysQueriedDespiteFailures ==
    /\ pc = "done"
    /\ Len(query_plan) >= 2
    /\ Len(calls) >= 3
    /\ calls[1].outcome = "raise"
    /\ \E i \in 1..Len(calls) : calls[i].outcome = "empty"

\* Tick i comes before tick j in time, arrival order deciding ties.
Earlier(i, j) ==
    \/ TickIn[i].ts < TickIn[j].ts
    \/ TickIn[i].ts = TickIn[j].ts /\ i <= j

\* C13: for ticks in any order, the bars are those of the ticks sorted
\* stably by timestamp: one bar per minute that holds a tick, ascending,
\* each bar's open the price of the chronologically earliest tick of its
\* minute and its close the price of the latest, ties keeping arrival order.
C13_OpenCloseFollowTimeOrder ==
    (resampled /\ ticks_df.kind = "DataFrame" /\ TickIn # <<>>) =>
        /\ \A k \in 1..(Len(Bars) - 1) : Bars[k].ts < Bars[k + 1].ts
        /\ {Bars[k].ts : k \in 1..Len(Bars)} = {MinuteStart(TickIn[i].ts) : i \in 1..Len(TickIn)}
        /\ \A k \in 1..Len(Bars) :
             LET I == TicksOfMinute(Bars[k].ts)
                 earliest == CHOOSE i \in I : \A j \in I : Earlier(i, j)
                 latest == CHOOSE i \in I : \A j \in I : Earlier(j, i)
             IN /\ Bars[k].Open = TickIn[earliest].close
                /\ Bars[k].Close = TickIn[latest].close

\* C13 witness: three ticks of one minute arrived out of time order, two of
\* them with the same timestamp and different prices, and were aggregated.
C13_UnsortedTicksWithTie ==
    /\ resampled
    /\ Len(TickIn) = 3
    /\ Len(Bars) = 1
    /\ TickIn[1].ts > TickIn[2].ts
    /\ TickIn[2].ts = TickIn[3].ts
    /\ TickIn[2].close # TickIn[3].close
    /\ Bars[1].Open = TickIn[2].close
    /\ Bars[1].Close = TickIn[1].close

\* The least k with 500 * k >= n.
CeilDiv500(n) == CHOOSE k \in 0..n : 500 * k >= n /\ (k = 0 \/ 500 * (k - 1) < n)

\* C16: with an initialised client, save_to_firestore on n rows never
\* commits a batch of more than 500 writes nor an empty one; once it has
\* returned it has made ceil(n/500) commits, and the committed batches hold
\* the rows 1..n each exactly once, none left uncommitted.
C16_BatchesCommitEveryRow ==
    /\ \A k \in 1..Len(commits) : commits[k].writes >= 1 /\ commits[k].writes <= 500
    /\ (fs_pc = "returned" /\ db_ready /\ fs_df.kind = "DataFrame") =>
         /\ Len(commits) = CeilDiv500(fs_df.len)
         /\ \A k \in 1..Len(commits) :
              commits[k].from = (IF k = 1 THEN 1 ELSE commits[k - 1].from + commits[k - 1].writes)
         /\ (fs_df.len > 0) =>
              commits[Len(commits)].from + commits[Len(commits)].writes - 1 = fs_df.len

\* C16 witness: a frame of more than 500 rows, not a multiple of 500, was
\* saved: a full batch committed in the loop and a smaller one after it.
C16_FullAndPartialBatchCommitted ==
    /\ fs_pc = "returned"
    /\ db_ready
    /\ Len(commits) >= 2
    /\ commits[1].writes = 500
    /\ commits[Len(commits)].writes < 500

====
